---- MODULE Spec2Model ----
(***************************************************************************)
(* sqlalchemy_utils: sort_query, defer_except, escape_like and the         *)
(* InstrumentedList predicates any / all.                                  *)
(*                                                                         *)
(* Python strings are sequences of one-character strings: 'c-n' is         *)
(* <<"c", "-", "n">> and '' is <<>>.  A query is a record holding what the *)
(* functions read and write: _entities, _join_entities, the ORDER BY list  *)
(* built by order_by and the property keys deferred through options.       *)
(***************************************************************************)
EXTENDS Integers, Sequences, FiniteSets, TLC

VARIABLES query, calls, sortCall, deferCall, list, listCall, likeCall

vars == <<query, calls, sortCall, deferCall, list, listCall, likeCall>>

\* ------------------------------------------------------------------ bounds
MaxLen == 4
MaxCalls == 2
MaxDeferCalls == 2
MaxItems == 3
MaxStr == 3

\* Characters a sort directive is made of, characters of escape_like's
\* input, and the attribute names the list predicates are asked about.
SortChars == {"-", "c", "n"}
LikeChars == {"*", "%", "_", "a", "!"}
Attrs == {"x", "y"}

StringsUpTo(chars, n) == UNION {[1..k -> chars] : k \in 0..n}

Min(S) == CHOOSE x \in S : \A y \in S : x <= y

\* ------------------------------------------------------- mapped classes
\* A mapped class: the name of its __table__, the names in
\* __table__.columns, and its instrumented attributes
\* (_sa_class_manager.values()).  A field is a ColumnProperty with its
\* columns, or a relationship (no columns).  sort_query reads
\* entity_zero.class_ of every selected entity and __table__ of every
\* candidate entity without a test, so the queries below are made of mapped
\* classes only.  Legacy is a second mapping of Category's table that
\* exposes column n under the key m.
Field(key, isColumn, columns) ==
    [key |-> key, isColumnProperty |-> isColumn, columns |-> columns]

Class ==
    [Article |->
        [table |-> <<"a">>,
         columns |-> {<<"n">>, <<"c">>},
         fields |-> {Field(<<"n">>, TRUE, <<(<<"n">>)>>),
                     Field(<<"c">>, TRUE, <<(<<"c">>)>>),
                     Field(<<"r">>, FALSE, <<>>)}],
     Category |->
        [table |-> <<"c">>,
         columns |-> {<<"i">>, <<"n">>},
         fields |-> {Field(<<"i">>, TRUE, <<(<<"i">>), (<<"p">>)>>),
                     Field(<<"n">>, TRUE, <<(<<"n">>)>>)}],
     Legacy |->
        [table |-> <<"c">>,
         columns |-> {<<"i">>, <<"n">>},
         fields |-> {Field(<<"m">>, TRUE, <<(<<"n">>)>>),
                     Field(<<"i">>, TRUE, <<(<<"i">>)>>),
                     Field(<<"r">>, FALSE, <<>>)}]]

\* getattr(entity, name) succeeds iff the class has an attribute of that key.
HasAttr(cls, name) == \E f \in Class[cls].fields : f.key = name

\* Entries of query._entities: a mapper entity (its _label_name is set by
\* the ORM but it is no _ColumnEntity) or a column entity with its label.
MapperEntity(cls) ==
    [isColumnEntity |-> FALSE, class_ |-> cls, label_name |-> Class[cls].table]
ColumnEntity(cls, label) ==
    [isColumnEntity |-> TRUE, class_ |-> cls, label_name |-> label]

\* Entries of query._join_entities: a Mapper, or the joined class itself.
JoinMapper(cls) == [isMapper |-> TRUE, class_ |-> cls]
JoinClass(cls) == [isMapper |-> FALSE, object |-> cls]

NewQuery(entities, joins) ==
    [entities |-> entities, joins |-> joins, order |-> <<>>, deferred |-> {}]

Queries ==
    { NewQuery(<<MapperEntity("Article")>>, <<>>),
      NewQuery(<<MapperEntity("Article")>>, <<JoinMapper("Category")>>),
      NewQuery(<<MapperEntity("Category"), ColumnEntity("Article", <<"c", "n">>)>>, <<>>),
      NewQuery(<<ColumnEntity("Article", <<"n">>)>>, <<JoinClass("Category")>>),
      NewQuery(<<MapperEntity("Legacy")>>, <<JoinMapper("Category")>>),
      NewQuery(<<MapperEntity("Article"), ColumnEntity("Article", <<>>)>>,
               <<JoinClass("Legacy"), JoinMapper("Category")>>) }

\* ------------------------------------------------------------ str helpers
\* str.split(sep) for a one-character separator.
RECURSIVE Split(_, _)
Split(s, sep) ==
    IF \A i \in 1..Len(s) : s[i] # sep
    THEN <<s>>
    ELSE LET i == Min({k \in 1..Len(s) : s[k] = sep})
         IN <<SubSeq(s, 1, i - 1)>> \o Split(SubSeq(s, i + 1, Len(s)), sep)

\* str.replace(old, new) for a non-empty old: leftmost, non-overlapping.
RECURSIVE Replace(_, _, _)
Replace(s, old, new) ==
    IF Len(s) < Len(old)
    THEN s
    ELSE IF SubSeq(s, 1, Len(old)) = old
         THEN new \o Replace(SubSeq(s, Len(old) + 1, Len(s)), old, new)
         ELSE <<Head(s)>> \o Replace(Tail(s), old, new)

InSeq(x, seq) == \E i \in 1..Len(seq) : seq[i] = x

\* ------------------------------------------------------------- sort_query
\* entities = [entity.entity_zero.class_ for entity in query._entities],
\* then mapper.class_ of every Mapper in query._join_entities and the
\* joined object itself otherwise.
JoinEntity(mapper) == IF mapper.isMapper THEN mapper.class_ ELSE mapper.object

CandidateEntities(q) ==
    [i \in 1..Len(q.entities) |-> q.entities[i].class_]
        \o [i \in 1..Len(q.joins) |-> JoinEntity(q.joins[i])]

\* HasLabel without the isinstance test: every entity with a _label_name.
HasLabelAnyEntity(entity) == entity.label_name # <<>>

\* An entity contributes a label when it is a _ColumnEntity with a truthy
\* _label_name.
HasLabel(entity) == entity.isColumnEntity /\ entity.label_name # <<>>

RECURSIVE LabelsFrom(_, _)
LabelsFrom(entities, i) ==
    IF i > Len(entities)
    THEN <<>>
    ELSE (IF HasLabel(entities[i]) THEN <<entities[i].label_name>> ELSE <<>>)
             \o LabelsFrom(entities, i + 1)

\* Labels never collected.
LabelsNone(q) == <<>>

Labels(q) == LabelsFrom(q.entities, 1)

\* Direction with desc and asc exchanged.
DirectionSwapped(sort) == IF Head(sort) = "-" THEN "asc" ELSE "desc"

\* if sort[0] == '-': func = desc; sort = sort[1:]  else: func = asc
Direction(sort) == IF Head(sort) = "-" THEN "desc" ELSE "asc"

StripMarker(sort) == IF Head(sort) = "-" THEN Tail(sort) ELSE sort

\* ParseComponent taking a component from exactly two parts only.
ParseComponentExactlyTwo(parts) == IF Len(parts) = 2 THEN <<parts[1]>> ELSE <<>>

\* component = None; parts = sort.split('-');
\* if len(parts) > 1: component = parts[0]; sort = parts[1]
\* The component is <<>> for None and <<c>> for the string c.
ParseComponent(parts) == IF Len(parts) > 1 THEN <<parts[1]>> ELSE <<>>

ParseField(parts, sort) == IF Len(parts) > 1 THEN parts[2] ELSE sort

\* SkipEntity with the component never compared.
SkipEntityNever(component, tableName) == FALSE

\* "if component and table.name != component: continue": None and '' are
\* both falsy.
SkipEntity(component, tableName) ==
    /\ component # <<>>
    /\ component[1] # <<>>
    /\ tableName # component[1]

\* func(x) wrapped for order_by: on a class attribute or on a label string.
Clause(func, kind, cls, name) ==
    [dir |-> func, kind |-> kind, class |-> cls, name |-> name]

\* order_by replacing the ORDER BY instead of adding to it.
order_byReplacing(order, clause) == <<clause>>

\* Query.order_by adds the criterion to the ORDER BY the query already has.
order_by(order, clause) == Append(order, clause)

\* SortLoop going on to the next entity after the AttributeError.
RECURSIVE SortLoopContinuing(_, _, _, _, _, _)
SortLoopContinuing(entities, i, component, sort, func, acc) ==
    IF i > Len(entities)
    THEN acc
    ELSE LET entity == entities[i]
             table == Class[entity]
             seen == [acc EXCEPT !.visited = Append(@, entity)]
         IN IF SkipEntity(component, table.table)
            THEN SortLoopContinuing(entities, i + 1, component, sort, func, seen)
            ELSE IF sort \in table.columns /\ HasAttr(entity, sort)
                 THEN [seen EXCEPT !.order =
                          order_by(@, Clause(func, "attr", entity, sort))]
                 ELSE SortLoopContinuing(entities, i + 1, component, sort, func, seen)

\* The loop over the candidate entities (for entity in entities: ...).
\* acc.visited lists the entities whose __table__ was read.
RECURSIVE SortLoop(_, _, _, _, _, _)
SortLoop(entities, i, component, sort, func, acc) ==
    IF i > Len(entities)
    THEN acc
    ELSE LET entity == entities[i]
             table == Class[entity]
             seen == [acc EXCEPT !.visited = Append(@, entity)]
         IN IF SkipEntity(component, table.table)
            THEN SortLoop(entities, i + 1, component, sort, func, seen)
            ELSE IF sort \in table.columns
                 THEN IF HasAttr(entity, sort)
                      THEN [seen EXCEPT !.order =
                               order_by(@, Clause(func, "attr", entity, sort))]
                      ELSE seen   \* except AttributeError: pass, then break
                 ELSE SortLoop(entities, i + 1, component, sort, func, seen)

\* The outcome of sort_query(query, sort): the ORDER BY list of the returned
\* query, whether an exception left the function, what the directive was
\* parsed to and which entities the loop looked at.
sort_query(q, sort) ==
    LET entities == CandidateEntities(q)
        labels == Labels(q)
        none == [order |-> q.order, raised |-> FALSE, visited |-> <<>>,
                 func |-> "none", component |-> <<>>, field |-> sort]
    IN IF sort = <<>>
       THEN none
       ELSE LET func == Direction(sort)
                rest == StripMarker(sort)
                parts == Split(rest, "-")
                component == ParseComponent(parts)
                field == ParseField(parts, rest)
                parsed == [none EXCEPT !.func = func, !.component = component,
                                       !.field = field]
            IN IF InSeq(field, labels)
               THEN [parsed EXCEPT !.order =
                        order_by(@, Clause(func, "label", "", field))]
               ELSE SortLoop(entities, 1, component, field, func, parsed)

Directives == StringsUpTo(SortChars, MaxLen)

\* The record of the last sort_query call: its argument, the ORDER BY list
\* of the query passed in (before) and sort_query's outcome.
NoSortCall ==
    [sort |-> <<>>, before |-> <<>>, order |-> <<>>, raised |-> FALSE,
     visited |-> <<>>, func |-> "none", component |-> <<>>, field |-> <<>>]

NoDeferCall == [n |-> 0, columns |-> {}, before |-> {}]
NoListCall == [op |-> "none", attr |-> "x", raised |-> FALSE, value |-> FALSE]
NoLikeCall == [string |-> <<>>, escape_char |-> <<"*">>, returned |-> FALSE,
               result |-> <<>>]

InitSort ==
    /\ query \in Queries
    /\ calls = 0
    /\ sortCall = NoSortCall
    /\ deferCall = NoDeferCall
    /\ list = <<>>
    /\ listCall = NoListCall
    /\ likeCall = NoLikeCall

\* query = sort_query(query, sort): the caller threads the returned query
\* into the next call.
SortQuery ==
    /\ calls < MaxCalls
    /\ \E sort \in Directives :
          /\ sortCall' = sort_query(query, sort)
                              @@ [sort |-> sort, before |-> query.order]
          /\ query' = [query EXCEPT !.order = sortCall'.order]
    /\ calls' = calls + 1
    /\ UNCHANGED <<deferCall, list, listCall, likeCall>>

NextSort == SortQuery

SpecSort == InitSort /\ [][NextSort]_vars

\* ----------------------------------------------------------- defer_except
\* model = query._entities[0].entity_zero.class_
PrimaryEntity(q) == q.entities[1].class_

\* DeferredKeys testing the property key instead of the column's name.
DeferredKeysByKey(cls, columns) ==
    {f.key : f \in {g \in Class[cls].fields :
                       g.isColumnProperty /\ g.key \notin columns}}

\* The property keys defer_except passes to query.options(defer(key)): for
\* every field whose property is a ColumnProperty, column = columns[0], and
\* the key is deferred when column.name is not in columns.
DeferredKeys(cls, columns) ==
    {f.key : f \in {g \in Class[cls].fields :
                       g.isColumnProperty /\ g.columns[1] \notin columns}}

\* The returned query carries the options it had and the new ones; the
\* iteration order of set(...) does not show in a set of keys.
defer_except(q, columns) ==
    [q EXCEPT !.deferred = @ \cup DeferredKeys(PrimaryEntity(q), columns)]

ColumnNames == {<<"n">>, <<"c">>, <<"i">>, <<"p">>, <<"m">>, <<"r">>}

InitDefer ==
    /\ query \in Queries
    /\ calls = 0
    /\ sortCall = NoSortCall
    /\ deferCall = NoDeferCall
    /\ list = <<>>
    /\ listCall = NoListCall
    /\ likeCall = NoLikeCall

\* query = defer_except(query, columns)
DeferExcept ==
    /\ deferCall.n < MaxDeferCalls
    /\ \E columns \in SUBSET ColumnNames :
          /\ query' = defer_except(query, columns)
          /\ deferCall' = [n |-> deferCall.n + 1, columns |-> columns,
                           before |-> query.deferred]
    /\ UNCHANGED <<calls, sortCall, list, listCall, likeCall>>

NextDefer == DeferExcept

SpecDefer == InitDefer /\ [][NextDefer]_vars

\* ------------------------------------------------------------ escape_like
\* escape_like doubling the escape character last.
escape_likeEscapeLast(string, escape_char) ==
    Replace(Replace(Replace(string, <<"%">>, escape_char \o <<"%">>),
                    <<"_">>, escape_char \o <<"_">>),
            escape_char, escape_char \o escape_char)

\* string.replace(escape_char, escape_char * 2)
\*       .replace('%', escape_char + '%').replace('_', escape_char + '_')
escape_like(string, escape_char) ==
    Replace(Replace(Replace(string, escape_char, escape_char \o escape_char),
                    <<"%">>, escape_char \o <<"%">>),
            <<"_">>, escape_char \o <<"_">>)

InitLike ==
    /\ query = NewQuery(<<MapperEntity("Article")>>, <<>>)
    /\ calls = 0
    /\ sortCall = NoSortCall
    /\ deferCall = NoDeferCall
    /\ list = <<>>
    /\ listCall = NoListCall
    /\ likeCall \in {[string |-> s, escape_char |-> <<e>>, returned |-> FALSE,
                      result |-> <<>>] :
                        s \in StringsUpTo(LikeChars, MaxStr), e \in LikeChars}

EscapeLike ==
    /\ ~likeCall.returned
    /\ likeCall' = [likeCall EXCEPT
                       !.returned = TRUE,
                       !.result = escape_like(likeCall.string, likeCall.escape_char)]
    /\ UNCHANGED <<query, calls, sortCall, deferCall, list, listCall>>

NextLike == EscapeLike

SpecLike == InitLike /\ [][NextLike]_vars

\* -------------------------------------------------------- InstrumentedList
\* An item is a function from the attribute names it exposes to their
\* values; 0 is falsy, 1 is truthy.
Items == UNION {[S -> {0, 1}] : S \in SUBSET Attrs}

Truthy(v) == v # 0

\* any(getattr(item, attr) for item in self): the generator is consumed
\* from the left; getattr raises at an item without attr, and any stops at
\* the first truthy value.
RECURSIVE AnyFrom(_, _, _)
AnyFrom(self, attr, i) ==
    IF i > Len(self)
    THEN [raised |-> FALSE, value |-> FALSE]
    ELSE IF attr \notin DOMAIN self[i]
         THEN [raised |-> TRUE, value |-> FALSE]
         ELSE IF Truthy(self[i][attr])
              THEN [raised |-> FALSE, value |-> TRUE]
              ELSE AnyFrom(self, attr, i + 1)

\* all(getattr(item, attr) for item in self): stops at the first falsy value.
RECURSIVE AllFrom(_, _, _)
AllFrom(self, attr, i) ==
    IF i > Len(self)
    THEN [raised |-> FALSE, value |-> TRUE]
    ELSE IF attr \notin DOMAIN self[i]
         THEN [raised |-> TRUE, value |-> FALSE]
         ELSE IF ~Truthy(self[i][attr])
              THEN [raised |-> FALSE, value |-> FALSE]
              ELSE AllFrom(self, attr, i + 1)

\* any over a list built first: every getattr is evaluated.
anyEager(self, attr) ==
    IF \E i \in 1..Len(self) : attr \notin DOMAIN self[i]
    THEN [raised |-> TRUE, value |-> FALSE]
    ELSE [raised |-> FALSE, value |-> \E i \in 1..Len(self) : Truthy(self[i][attr])]

any(self, attr) == AnyFrom(self, attr, 1)

all(self, attr) == AllFrom(self, attr, 1)

\* instrumented_list: InstrumentedList([item for item in f(*args, **kwargs)])
instrumented_list(result) == [i \in 1..Len(result) |-> result[i]]

InitList ==
    /\ query = NewQuery(<<MapperEntity("Article")>>, <<>>)
    /\ calls = 0
    /\ sortCall = NoSortCall
    /\ deferCall = NoDeferCall
    /\ list \in {instrumented_list(r) : r \in UNION {[1..k -> Items] : k \in 0..MaxItems}}
    /\ listCall = NoListCall
    /\ likeCall = NoLikeCall

ListAny ==
    /\ listCall.op = "none"
    /\ \E attr \in Attrs :
          listCall' = any(list, attr) @@ [op |-> "any", attr |-> attr]
    /\ UNCHANGED <<query, calls, sortCall, deferCall, list, likeCall>>

ListAll ==
    /\ listCall.op = "none"
    /\ \E attr \in Attrs :
          listCall' = all(list, attr) @@ [op |-> "all", attr |-> attr]
    /\ UNCHANGED <<query, calls, sortCall, deferCall, list, likeCall>>

NextList == ListAny \/ ListAll

SpecList == InitList /\ [][NextList]_vars

\* ------------------------------------------------- properties: sort_query
\* C1: for a non-empty directive whose field resolves to a column attribute
\* (the field is no result label, and the first candidate entity that passes
\* the component filter and has the column exposes the attribute), the call
\* appends one clause on that attribute: descending when the directive
\* starts with '-', ascending otherwise; the field is read after the marker.
C1_SortDirection ==
    (calls > 0 /\ sortCall.sort # <<>>) =>
        LET d == sortCall.sort
            descending == Head(d) = "-"
            rest == IF descending THEN Tail(d) ELSE d
            parts == Split(rest, "-")
            comp == IF Len(parts) > 1 THEN parts[1] ELSE <<>>
            f == IF Len(parts) > 1 THEN parts[2] ELSE rest
            cands == CandidateEntities(query)
            hits == {i \in 1..Len(cands) :
                        /\ comp = <<>> \/ Class[cands[i]].table = comp
                        /\ f \in Class[cands[i]].columns}
        IN (/\ ~(\E e \in 1..Len(query.entities) :
                  /\ query.entities[e].isColumnEntity
                  /\ query.entities[e].label_name # <<>>
                  /\ query.entities[e].label_name = f)
            /\ hits # {}
            /\ HasAttr(cands[Min(hits)], f))
             => sortCall.order =
                   Append(sortCall.before,
                          [dir |-> IF descending THEN "desc" ELSE "asc",
                           kind |-> "attr", class |-> cands[Min(hits)], name |-> f])

\* sort_query(query, '-n') on a query of Article: a descending clause on
\* Article.n was appended.
C1_Witness ==
    /\ calls > 0
    /\ sortCall.sort = <<"-", "n">>
    /\ sortCall.order =
          Append(sortCall.before,
                 [dir |-> "desc", kind |-> "attr", class |-> "Article", name |-> <<"n">>])

\* C2: when the field of the directive is neither a result label nor a
\* column of any candidate entity's table, no error leaves sort_query and
\* the returned ORDER BY list is the one passed in.
C2_UnknownFieldNoOp ==
    calls > 0 =>
        LET d == sortCall.sort
            rest == IF d # <<>> /\ Head(d) = "-" THEN Tail(d) ELSE d
            parts == Split(rest, "-")
            f == IF Len(parts) > 1 THEN parts[2] ELSE rest
            cands == CandidateEntities(query)
        IN (/\ ~(\E e \in 1..Len(query.entities) :
                  /\ query.entities[e].isColumnEntity
                  /\ query.entities[e].label_name # <<>>
                  /\ query.entities[e].label_name = f)
            /\ \A i \in 1..Len(cands) : f \notin Class[cands[i]].columns)
             => ~sortCall.raised /\ sortCall.order = sortCall.before

\* An unknown field ('nn') sorted on a query that already has one clause:
\* every candidate was looked at and the list is unchanged.
C2_Witness ==
    /\ calls > 0
    /\ sortCall.sort = <<"n", "n">>
    /\ Len(sortCall.before) = 1
    /\ sortCall.visited = CandidateEntities(query)
    /\ sortCall.order = sortCall.before
    /\ ~sortCall.raised

\* C3 as stated: for a directive 'c-f' (after the optional marker) with f no
\* result label, a clause that is applied is on attribute f of an entity
\* whose table is named c.
C3_ComponentSelectsTable ==
    (calls > 0 /\ sortCall.sort # <<>>) =>
        LET d == sortCall.sort
            rest == IF Head(d) = "-" THEN Tail(d) ELSE d
            parts == Split(rest, "-")
        IN (/\ Len(parts) = 2
            /\ ~(\E e \in 1..Len(query.entities) :
                  /\ query.entities[e].isColumnEntity
                  /\ query.entities[e].label_name # <<>>
                  /\ query.entities[e].label_name = parts[2])) =>
              \/ sortCall.order = sortCall.before
              \/ \E cls \in DOMAIN Class :
                    /\ Class[cls].table = parts[1]
                    /\ sortCall.order =
                          Append(sortCall.before,
                                 [dir |-> IF Head(d) = "-" THEN "desc" ELSE "asc", kind |-> "attr",
                                  class |-> cls, name |-> parts[2]])

\* C3 amended: the same for a directive 'c-f' whose component c is not the
\* empty string.
C3_NonEmptyComponentSelectsTable ==
    (calls > 0 /\ sortCall.sort # <<>>) =>
        LET d == sortCall.sort
            rest == IF Head(d) = "-" THEN Tail(d) ELSE d
            parts == Split(rest, "-")
        IN (/\ Len(parts) = 2
            /\ parts[1] # <<>>
            /\ ~(\E e \in 1..Len(query.entities) :
                  /\ query.entities[e].isColumnEntity
                  /\ query.entities[e].label_name # <<>>
                  /\ query.entities[e].label_name = parts[2])) =>
              \/ sortCall.order = sortCall.before
              \/ \E cls \in DOMAIN Class :
                    /\ Class[cls].table = parts[1]
                    /\ sortCall.order =
                          Append(sortCall.before,
                                 [dir |-> IF Head(d) = "-" THEN "desc" ELSE "asc", kind |-> "attr",
                                  class |-> cls, name |-> parts[2]])

\* Article joined with Category sorted by 'c-n': Article (table a, column n)
\* comes first and is passed over, the clause is on Category.n.
C3_Witness ==
    /\ calls > 0
    /\ sortCall.sort = <<"c", "-", "n">>
    /\ sortCall.visited = <<"Article", "Category">>
    /\ <<"n">> \in Class["Article"].columns
    /\ sortCall.order =
          Append(sortCall.before,
                 [dir |-> "asc", kind |-> "attr", class |-> "Category", name |-> <<"n">>])

\* C4 as stated: exactly two parts give (component, field); any other number
\* of parts gives no component and the whole remainder as the field.
C4_ExactlyTwoParts ==
    (calls > 0 /\ sortCall.sort # <<>>) =>
        LET d == sortCall.sort
            rest == IF Head(d) = "-" THEN Tail(d) ELSE d
            parts == Split(rest, "-")
        IN IF Len(parts) = 2
           THEN sortCall.component = <<parts[1]>> /\ sortCall.field = parts[2]
           ELSE sortCall.component = <<>> /\ sortCall.field = rest

\* C4 amended: two or more parts give (first part, second part), the parts
\* after the second being dropped; one part gives no component and the
\* whole remainder as the field.
C4_TwoOrMoreParts ==
    (calls > 0 /\ sortCall.sort # <<>>) =>
        LET d == sortCall.sort
            rest == IF Head(d) = "-" THEN Tail(d) ELSE d
            parts == Split(rest, "-")
        IN IF Len(parts) >= 2
           THEN sortCall.component = <<parts[1]>> /\ sortCall.field = parts[2]
           ELSE sortCall.component = <<>> /\ sortCall.field = rest

\* 'c-n-' has three parts: it is sorted as 'c-n', on Category.n.
C4_Witness ==
    /\ calls > 0
    /\ sortCall.sort = <<"c", "-", "n", "-">>
    /\ sortCall.component = <<(<<"c">>)>>
    /\ sortCall.field = <<"n">>
    /\ sortCall.order =
          Append(sortCall.before,
                 [dir |-> "asc", kind |-> "attr", class |-> "Category", name |-> <<"n">>])

\* C5: when the parsed field is one of the result labels, exactly one clause
\* is appended, on the label and with the parsed direction, and no candidate
\* entity's table is read.
C5_LabelFirst ==
    (calls > 0 /\ sortCall.sort # <<>>) =>
        LET d == sortCall.sort
            descending == Head(d) = "-"
            rest == IF descending THEN Tail(d) ELSE d
            parts == Split(rest, "-")
            f == IF Len(parts) > 1 THEN parts[2] ELSE rest
            isLabel == \E i \in 1..Len(query.entities) :
                          /\ query.entities[i].isColumnEntity
                          /\ query.entities[i].label_name # <<>>
                          /\ query.entities[i].label_name = f
        IN isLabel =>
              /\ sortCall.order =
                    Append(sortCall.before,
                           [dir |-> IF descending THEN "desc" ELSE "asc",
                            kind |-> "label", class |-> "", name |-> f])
              /\ sortCall.visited = <<>>
              /\ ~sortCall.raised

\* The label n of a column entity of Article, whose table also has a column
\* n, sorted with a component selector and the marker: '-c-n'.
C5_Witness ==
    /\ calls > 0
    /\ sortCall.sort = <<"-", "c", "-", "n">>
    /\ InSeq(<<"n">>, Labels(query))
    /\ \E i \in 1..Len(CandidateEntities(query)) :
          <<"n">> \in Class[CandidateEntities(query)[i]].columns
    /\ sortCall.visited = <<>>
    /\ sortCall.order =
          Append(sortCall.before,
                 [dir |-> "desc", kind |-> "label", class |-> "", name |-> <<"n">>])

\* C9: when the field is no label, the first candidate entity that passes
\* the component filter and has the column ends the search; if it does not
\* expose the attribute, no error leaves sort_query, the ORDER BY list is
\* unchanged and no later candidate is looked at.
C9_FirstColumnMatchEndsSearch ==
    (calls > 0 /\ sortCall.sort # <<>>) =>
        LET d == sortCall.sort
            rest == IF Head(d) = "-" THEN Tail(d) ELSE d
            parts == Split(rest, "-")
            comp == IF Len(parts) > 1 THEN parts[1] ELSE <<>>
            f == IF Len(parts) > 1 THEN parts[2] ELSE rest
            cands == CandidateEntities(query)
            hits == {i \in 1..Len(cands) :
                        /\ comp = <<>> \/ Class[cands[i]].table = comp
                        /\ f \in Class[cands[i]].columns}
        IN (/\ ~(\E e \in 1..Len(query.entities) :
                  /\ query.entities[e].isColumnEntity
                  /\ query.entities[e].label_name # <<>>
                  /\ query.entities[e].label_name = f)
            /\ hits # {}) =>
              /\ sortCall.visited = SubSeq(cands, 1, Min(hits))
              /\ ~sortCall.raised
              /\ ~HasAttr(cands[Min(hits)], f) => sortCall.order = sortCall.before

\* 'c-n' on Article joined with Legacy and Category: Legacy (table c, column
\* n, no attribute n) ends the search, Category (column and attribute n) is
\* not looked at and nothing is appended.
C9_Witness ==
    /\ calls > 0
    /\ sortCall.sort = <<"c", "-", "n">>
    /\ CandidateEntities(query) = <<"Article", "Article", "Legacy", "Category">>
    /\ sortCall.visited = <<"Article", "Article", "Legacy">>
    /\ ~HasAttr("Legacy", <<"n">>) /\ HasAttr("Category", <<"n">>)
    /\ sortCall.order = sortCall.before
    /\ ~sortCall.raised

\* C10: every call returns the ORDER BY list passed in with zero or one
\* clause appended, and the query carries it into the next call: after n
\* calls on a query that started without ordering the list has at most n
\* clauses.
C10_AppendOnly ==
    /\ Len(query.order) <= calls
    /\ calls > 0 =>
          /\ query.order = sortCall.order
          /\ Len(sortCall.order) <= Len(sortCall.before) + 1
          /\ SubSeq(sortCall.order, 1, Len(sortCall.before)) = sortCall.before
          /\ sortCall.sort = <<>> => sortCall.order = sortCall.before

\* Two calls, each of which appended a clause.
C10_Witness ==
    /\ calls = 2
    /\ Len(sortCall.before) = 1
    /\ Len(query.order) = 2
    /\ query.order[1] = sortCall.before[1]

\* ----------------------------------------------- properties: defer_except
\* C6 as stated: after defer_except(query, columns) a simple-column
\* attribute of the primary entity is deferred on the returned query iff the
\* name of its first column is not in columns, and no other property is.
C6_EagerExactlyKept ==
    deferCall.n > 0 =>
        \A f \in Class[PrimaryEntity(query)].fields :
            IF f.isColumnProperty
            THEN f.key \in query.deferred <=> f.columns[1] \notin deferCall.columns
            ELSE f.key \notin query.deferred

\* C6 amended: the call defers exactly the simple-column attributes whose
\* first column's name is not in columns, keeps what the query passed in
\* already deferred and defers no other property; for a query that deferred
\* nothing before the call, the attributes left eager are exactly those
\* whose first column is named in columns.
C6_DefersExactlyTheOthers ==
    deferCall.n > 0 =>
        LET fields == Class[PrimaryEntity(query)].fields
        IN /\ \A f \in fields :
                 IF f.isColumnProperty
                 THEN f.key \in query.deferred <=>
                         \/ f.key \in deferCall.before
                         \/ f.columns[1] \notin deferCall.columns
                 ELSE f.key \notin query.deferred
           /\ query.deferred \subseteq {f.key : f \in fields}
           /\ deferCall.before = {} =>
                 {f \in fields : f.isColumnProperty /\ f.key \notin query.deferred}
                    = {f \in fields : f.isColumnProperty
                                         /\ f.columns[1] \in deferCall.columns}

\* defer_except on a fresh query of Legacy keeping n and r: attribute m
\* (column n) stays eager, i is deferred, the relationship r is not touched.
C6_Witness ==
    /\ deferCall.n = 1
    /\ PrimaryEntity(query) = "Legacy"
    /\ deferCall.before = {}
    /\ deferCall.columns = {<<"n">>, <<"r">>}
    /\ query.deferred = {<<"i">>}

\* ------------------------------------------------ properties: escape_like
\* C7: for a one-character escape_char e other than '%' and '_',
\* escape_like(s, e) is s with every e doubled, every '%' and '_' preceded
\* by e and every other character kept; so s is returned as it is when it
\* has none of the three, '50%_off' gives '50*%*_off' and 'a*b' gives 'a**b'.
C7_CharacterwiseImage ==
    /\ escape_like(<<"5", "0", "%", "_", "o", "f", "f">>, <<"*">>)
          = <<"5", "0", "*", "%", "*", "_", "o", "f", "f">>
    /\ escape_like(<<"a", "*", "b">>, <<"*">>) = <<"a", "*", "*", "b">>
    /\ (likeCall.returned /\ likeCall.escape_char \notin {<<"%">>, <<"_">>}) =>
          LET s == likeCall.string
              e == likeCall.escape_char[1]
              Image(c) == IF c = e THEN <<e, e>>
                          ELSE IF c \in {"%", "_"} THEN <<e, c>> ELSE <<c>>
              Upto[k \in 0..Len(s)] ==
                  IF k = 0 THEN <<>> ELSE Upto[k - 1] \o Image(s[k])
          IN /\ likeCall.result = Upto[Len(s)]
             /\ (\A k \in 1..Len(s) : s[k] \notin {e, "%", "_"})
                   => likeCall.result = s

\* '*%_' escaped with '*'.
C7_Witness ==
    /\ likeCall.returned
    /\ likeCall.escape_char = <<"*">>
    /\ likeCall.string = <<"*", "%", "_">>
    /\ likeCall.result = <<"*", "*", "*", "%", "*", "_">>

\* ------------------------------------------- properties: InstrumentedList
\* C8 as stated: any(attr) and all(attr) raise whenever some item of the
\* list does not expose attr.
C8_RaisesWheneverMissing ==
    (listCall.op # "none" /\ \E i \in 1..Len(list) : listCall.attr \notin DOMAIN list[i])
        => listCall.raised

\* C8 amended: any(attr) and all(attr) raise exactly when an item without
\* attr is reached: every item before it exposes attr, with a falsy value
\* for any and a truthy value for all.
C8_RaisesWhenMissingIsReached ==
    listCall.op # "none" =>
        (listCall.raised <=>
            \E i \in 1..Len(list) :
                /\ listCall.attr \notin DOMAIN list[i]
                /\ \A j \in 1..(i - 1) :
                      /\ listCall.attr \in DOMAIN list[j]
                      /\ listCall.op = "any" => list[j][listCall.attr] = 0
                      /\ listCall.op = "all" => list[j][listCall.attr] # 0)

\* all('x') on three items, the last of which has no x and the others a
\* truthy x.
C8_Witness ==
    /\ listCall.op = "all"
    /\ listCall.attr = "x"
    /\ Len(list) = 3
    /\ "x" \in DOMAIN list[1] /\ list[1]["x"] = 1
    /\ "x" \in DOMAIN list[2] /\ list[2]["x"] = 1
    /\ "x" \notin DOMAIN list[3]
    /\ listCall.raised

====
